---- MODULE Spec2Model ----
(***************************************************************************)
(* licencpp (src/src/licencpp.py): a script that reads the project's       *)
(* vcpkg.json, lets vcpkg write the dependency graph as DGML, parses the   *)
(* node identifiers, looks every identifier up in the additional and the   *)
(* official registry, and writes project_spdx_document.spdx.yaml.          *)
(*                                                                         *)
(* JSON values are modelled as tagged records (null, string, list of       *)
(* strings); an optional thing (an XML attribute, a file, the output       *)
(* document) is a sequence of length at most one.  The creation timestamp  *)
(* and the creator list of the document are constants of the run and are   *)
(* not modelled.  The project manifest, when it is JSON, names the project *)
(* with a string; the manifests of the ports are JSON objects.             *)
(***************************************************************************)
EXTENDS Integers, Sequences, FiniteSets, TLC

VARIABLES
    pc,                          \* position of the script
    error,                       \* the exception that ended the run, "" if none
    exit_code,                   \* -1 while running, then the process's exit code
    project_file,                \* the file at args.project_vcpkg_json
    vcpkg_additional_registry,   \* args.vcpkg_additional_registry
    enable_mermaid,              \* args.mermaid
    project_name, project_license, project_homepage,
    project_version, project_description,
    dgml_rc, mermaid_rc,         \* return codes of the two vcpkg runs, -1 = not run
    dgml,                        \* the file at args.dependencies_dgml
    ports,                       \* the manifests of the registries, as far as read
    dependencies,                \* the list parse_dgml returned
    dep_index,                   \* iterations of the resolve loop done
    dependencies_info,           \* the dict of the resolve loop
    log,                         \* the stages run, in order
    output,                      \* project_spdx_document.spdx.yaml
    dep_data, version            \* argument and result of get_version_from_dep_data

vars == <<pc, error, exit_code, project_file, vcpkg_additional_registry,
          enable_mermaid, project_name, project_license, project_homepage,
          project_version, project_description, dgml_rc, mermaid_rc, dgml,
          ports, dependencies, dep_index, dependencies_info, log, output,
          dep_data, version>>

(***************************************************************************)
(* Bounds                                                                  *)
(***************************************************************************)
MaxElems == 3        \* elements of a graph document

(***************************************************************************)
(* Python values                                                           *)
(***************************************************************************)
None == [t |-> "null", s |-> "", l |-> <<>>]
Str(x) == [t |-> "str", s |-> x, l |-> <<>>]
List(q) == [t |-> "list", s |-> "", l |-> q]

\* truth value of a Python object: None, "" and [] are false
Truthy(v) ==
    CASE v.t = "null" -> FALSE
      [] v.t = "str"  -> v.s # ""
      [] v.t = "list" -> v.l # <<>>

NOASSERTION == Str("NOASSERTION")

\* the value as it is, without the "or"
OrKeep(v) == v

\* x or "NOASSERTION"
OrNoAssertion(v) == IF Truthy(v) THEN v ELSE NOASSERTION

\* dict.get(key)
Get(d, k) == IF k \in DOMAIN d THEN d[k] ELSE None

\* ' '.join(q)
RECURSIVE Join(_)
Join(q) ==
    IF q = <<>> THEN ""
    ELSE IF Len(q) = 1 THEN q[1]
    ELSE q[1] \o " " \o Join(Tail(q))

\* "SPDXRef-Package-{}".format(name)
SpdxId(name) == "SPDXRef-Package-" \o name

(***************************************************************************)
(* Inputs                                                                  *)
(***************************************************************************)
IDs == {"foo", "bar", "baz"}

NodeTag == "{http://schemas.microsoft.com/vs/2009/dgml}Node"
LinkTag == "{http://schemas.microsoft.com/vs/2009/dgml}Link"

\* an element of the graph document, in document order; id is the Id attribute
Elements ==
    {[tag |-> NodeTag, id |-> <<i>>] : i \in IDs}
        \cup {[tag |-> NodeTag, id |-> <<>>], [tag |-> LinkTag, id |-> <<>>]}

SeqsUpTo(S, n) == UNION {[1..k -> S] : k \in 0..n}

\* what vcpkg leaves in the dgml file: the elements of a well-formed document,
\* or text that is not XML
Malformed == [wellformed |-> FALSE, elems |-> <<>>]
GraphFiles ==
    {[wellformed |-> TRUE, elems |-> e] : e \in SeqsUpTo(Elements, MaxElems)}
        \cup {Malformed}

\* the project's manifest: no file (<<>>), or a file with its text, which is
\* not JSON (<<>>, an empty file) or a JSON object; the name is a string
\* (one manifest: a field set, an empty one, a null one and a missing one)
ProjectManifest ==
    [name |-> Str("foo"), license |-> Str("MIT"), homepage |-> Str(""),
     version |-> None]
NotJson == <<>>
ProjectFiles == {<<>>, <<NotJson>>, <<<<ProjectManifest>>>>}

\* manifests of a port
PortFull ==
    [license |-> Str("MIT"), homepage |-> Str("https://a"),
     description |-> List(<<"A", "B">>)]
        @@ ("version-semver" :> Str("1.2.3")) @@ ("version-date" :> Str("2024-01-01"))
PortSparse ==
    [license |-> Str("BSD-3-Clause"), homepage |-> Str(""), version |-> None]
        @@ ("version-string" :> Str("v2"))
PortFiles == {<<>>, <<PortFull>>, <<PortSparse>>}

Unread == [read |-> FALSE, additional |-> <<>>, official |-> <<>>]

(***************************************************************************)
(* parse_dgml                                                              *)
(***************************************************************************)
\* a parser that keeps the first node of every identifier only
RECURSIVE ParseDistinct(_)
ParseDistinct(elems) ==
    IF elems = <<>> THEN <<>>
    ELSE LET rest == ParseDistinct(Tail(elems))
             h == Head(elems)
         IN  IF h.tag = NodeTag /\ \A k \in 1..Len(rest) : rest[k] # h.id
             THEN <<h.id>> \o rest
             ELSE rest

\* root.findall('.//{...}Node'), node.get('Id') appended for each
RECURSIVE parse_dgml(_)
parse_dgml(elems) ==
    IF elems = <<>> THEN <<>>
    ELSE IF Head(elems).tag = NodeTag
         THEN <<Head(elems).id>> \o parse_dgml(Tail(elems))
         ELSE parse_dgml(Tail(elems))

(***************************************************************************)
(* get_version_from_dep_data                                               *)
(***************************************************************************)
keys == <<"version", "version-semver", "version-date", "version-string">>

RECURSIVE FirstVersion(_, _, _)
FirstVersion(d, ks, k) ==
    IF k > Len(ks) THEN None
    ELSE IF Get(d, ks[k]) # None THEN Get(d, ks[k])
    ELSE FirstVersion(d, ks, k + 1)

\* the key list searched from its end
RECURSIVE LastVersion(_, _, _)
LastVersion(d, ks, k) ==
    IF k < 1 THEN None
    ELSE IF Get(d, ks[k]) # None THEN Get(d, ks[k])
    ELSE LastVersion(d, ks, k - 1)

VersionLastKey(d) == LastVersion(d, keys, Len(keys))

get_version_from_dep_data(d) == FirstVersion(d, keys, 1)

(***************************************************************************)
(* get_data_from_vcpkg_json                                                *)
(***************************************************************************)
\* the candidate paths, in order, as the files found there
vcpkg_json_paths(registry, p) ==
    (IF registry # "" THEN <<p.additional>> ELSE <<>>) \o <<p.official>>

AllAbsent ==
    [license |-> None, homepage |-> None, version |-> None, description |-> None]

\* the tuple returned for an opened manifest
ReadManifest(d) ==
    LET description == Get(d, "description")
    IN  [license |-> Get(d, "license"),
         homepage |-> Get(d, "homepage"),
         version |-> get_version_from_dep_data(d),
         description |-> IF description.t = "list"
                         THEN Str(Join(description.l))
                         ELSE description]

RECURSIVE FirstExisting(_, _)
FirstExisting(paths, k) ==
    IF k > Len(paths) THEN AllAbsent
    ELSE IF paths[k] # <<>> THEN ReadManifest(paths[k][1])
    ELSE FirstExisting(paths, k + 1)

\* a lookup that prefers the official registry
LookupOfficialFirst(registry, p) ==
    FirstExisting(<<p.official>> \o (IF registry # "" THEN <<p.additional>> ELSE <<>>), 1)

get_data_from_vcpkg_json(registry, p) == FirstExisting(vcpkg_json_paths(registry, p), 1)

(***************************************************************************)
(* The dict dependencies_info: keys in insertion order, and their values   *)
(***************************************************************************)
EmptyDict == [keys |-> <<>>, vals |-> <<>>]

\* a list of pairs instead of a dict: every assignment adds an entry
DictAppend(d, k, v) ==
    [keys |-> Append(d.keys, k),
     vals |-> IF k \in DOMAIN d.vals THEN [d.vals EXCEPT ![k] = v]
              ELSE d.vals @@ (k :> v)]

\* d[k] = v
DictSet(d, k, v) ==
    IF k \in DOMAIN d.vals
    THEN [d EXCEPT !.vals[k] = v]
    ELSE [keys |-> Append(d.keys, k), vals |-> d.vals @@ (k :> v)]

(***************************************************************************)
(* generate_spdx_document                                                  *)
(***************************************************************************)
RootPackage ==
    [SPDXID |-> SpdxId(project_name),
     name |-> project_name,
     downloadLocation |-> OrNoAssertion(project_homepage),
     homepage |-> OrNoAssertion(project_homepage),
     licenseConcluded |-> NOASSERTION,
     licenseDeclared |-> OrNoAssertion(project_license),
     description |-> OrNoAssertion(project_description),
     versionInfo |-> OrNoAssertion(project_version)]

\* the record with the looked-up fields as they came
DepPackageRaw(dep, info) ==
    [SPDXID |-> SpdxId(dep),
     name |-> dep,
     downloadLocation |-> info.homepage,
     homepage |-> info.homepage,
     licenseConcluded |-> NOASSERTION,
     licenseDeclared |-> info.license,
     description |-> info.description,
     versionInfo |-> info.version]

DepPackage(dep, info) ==
    [SPDXID |-> SpdxId(dep),
     name |-> dep,
     downloadLocation |-> OrNoAssertion(info.homepage),
     homepage |-> OrNoAssertion(info.homepage),
     licenseConcluded |-> NOASSERTION,
     licenseDeclared |-> OrNoAssertion(info.license),
     description |-> OrNoAssertion(info.description),
     versionInfo |-> OrNoAssertion(info.version)]

\* the edge drawn from the dependency to the root
RelationshipReversed(dep) ==
    [spdxElementId |-> SpdxId(dep),
     relationshipType |-> "DEPENDS_ON",
     relatedSpdxElement |-> SpdxId(project_name)]

Relationship(dep) ==
    [spdxElementId |-> SpdxId(project_name),
     relationshipType |-> "DEPENDS_ON",
     relatedSpdxElement |-> SpdxId(dep)]

\* the test of line 129 left out
NeverRoot(dep) == FALSE

\* if package_spdx_id == "SPDXRef-Package-{}".format(project_name): continue
IsRoot(dep) == SpdxId(dep) = SpdxId(project_name)

RECURSIVE DepPackages(_, _)
DepPackages(d, k) ==
    IF k > Len(d.keys) THEN <<>>
    ELSE IF IsRoot(d.keys[k]) THEN DepPackages(d, k + 1)
    ELSE <<DepPackage(d.keys[k], d.vals[d.keys[k]])>> \o DepPackages(d, k + 1)

RECURSIVE Relationships(_, _)
Relationships(d, k) ==
    IF k > Len(d.keys) THEN <<>>
    ELSE IF IsRoot(d.keys[k]) THEN Relationships(d, k + 1)
    ELSE <<Relationship(d.keys[k])>> \o Relationships(d, k + 1)

spdx_document(d) ==
    [SPDXID |-> "SPDXRef-DOCUMENT",
     spdxVersion |-> "SPDX-2.2",
     name |-> project_name,
     dataLicense |-> "CC0-1.0",
     documentDescribes |-> <<SpdxId(project_name)>>,
     packages |-> <<RootPackage>> \o DepPackages(d, 1),
     relationships |-> Relationships(d, 1)]

(***************************************************************************)
(* The script                                                              *)
(***************************************************************************)
NoProject ==
    /\ project_name = ""
    /\ project_license = None
    /\ project_homepage = None
    /\ project_version = None
    /\ project_description = None

Idle ==
    /\ error = ""
    /\ exit_code = -1
    /\ NoProject
    /\ dgml_rc = -1
    /\ mermaid_rc = -1
    /\ dgml = Malformed
    /\ ports = [i \in IDs |-> Unread]
    /\ dependencies = <<>>
    /\ dep_index = 0
    /\ dependencies_info = EmptyDict
    /\ log = <<>>
    /\ output = <<>>

Init ==
    /\ pc = "start"
    /\ project_file \in ProjectFiles
    /\ vcpkg_additional_registry \in {"", "registry/ports"}
    /\ enable_mermaid \in BOOLEAN
    /\ Idle
    /\ dep_data = <<>>
    /\ version = None

args == <<project_file, vcpkg_additional_registry, enable_mermaid>>
project == <<project_name, project_license, project_homepage, project_version,
             project_description>>
pure == <<dep_data, version>>

\* an uncaught exception: the traceback is printed and the process exits with 1
Raise(e) ==
    /\ pc' = "raised"
    /\ error' = e
    /\ exit_code' = 1

\* the existence test placed after the first vcpkg run
ManifestMissingLate ==
    /\ pc = "start"
    /\ project_file = <<>>
    /\ pc' = "exited"
    /\ exit_code' = 1
    /\ dgml_rc' = 0
    /\ log' = Append(log, "depend_info_dgml")
    /\ UNCHANGED <<error, args, project, mermaid_rc, dgml, ports,
                   dependencies, dep_index, dependencies_info, output, pure>>

\* lines 61-63
ManifestMissing ==
    /\ pc = "start"
    /\ project_file = <<>>
    /\ pc' = "exited"
    /\ exit_code' = 1
    /\ UNCHANGED <<error, args, project, dgml_rc, mermaid_rc, dgml, ports,
                   dependencies, dep_index, dependencies_info, log, output, pure>>

\* lines 65-71, the manifest is not JSON
LoadProjectFails ==
    /\ pc = "start"
    /\ project_file = <<NotJson>>
    /\ Raise("JSONDecodeError")
    /\ UNCHANGED <<args, project, dgml_rc, mermaid_rc, dgml, ports,
                   dependencies, dep_index, dependencies_info, log, output, pure>>

\* lines 65-71
LoadProject ==
    /\ pc = "start"
    /\ project_file \notin {<<>>, <<NotJson>>}
    /\ LET project_data == project_file[1][1]
       IN  /\ project_name' = Get(project_data, "name").s
           /\ project_license' = Get(project_data, "license")
           /\ project_homepage' = Get(project_data, "homepage")
           /\ project_version' = Get(project_data, "version")
           /\ project_description' = Get(project_data, "description")
    /\ pc' = "depend_info"
    /\ UNCHANGED <<error, exit_code, args, dgml_rc, mermaid_rc, dgml, ports,
                   dependencies, dep_index, dependencies_info, log, output, pure>>

\* subprocess.run without check=True
RunDependInfoUnchecked ==
    /\ pc = "depend_info"
    /\ \E rc \in {0, 1}, f \in GraphFiles :
        /\ dgml_rc' = rc
        /\ dgml' = f
        /\ log' = Append(log, "depend_info_dgml")
        /\ pc' = IF enable_mermaid THEN "mermaid" ELSE "parse"
        /\ UNCHANGED <<error, exit_code>>
    /\ UNCHANGED <<args, project, mermaid_rc, ports, dependencies, dep_index,
                   dependencies_info, output, pure>>

\* lines 76-80: the shell truncates the dgml file and vcpkg writes to it;
\* check=True raises when vcpkg returns non-zero
RunDependInfo ==
    /\ pc = "depend_info"
    /\ \E rc \in {0, 1}, f \in GraphFiles :
        /\ dgml_rc' = rc
        /\ dgml' = f
        /\ log' = Append(log, "depend_info_dgml")
        /\ IF rc # 0
           THEN Raise("CalledProcessError")
           ELSE /\ pc' = IF enable_mermaid THEN "mermaid" ELSE "parse"
                /\ UNCHANGED <<error, exit_code>>
    /\ UNCHANGED <<args, project, mermaid_rc, ports, dependencies, dep_index,
                   dependencies_info, output, pure>>

\* lines 82-86
RunMermaid ==
    /\ pc = "mermaid"
    /\ \E rc \in {0, 1} :
        /\ mermaid_rc' = rc
        /\ log' = Append(log, "depend_info_mermaid")
        /\ IF rc # 0
           THEN Raise("CalledProcessError")
           ELSE /\ pc' = "parse"
                /\ UNCHANGED <<error, exit_code>>
    /\ UNCHANGED <<args, project, dgml_rc, dgml, ports, dependencies, dep_index,
                   dependencies_info, output, pure>>

\* lines 190-191: ET.parse raises on text that is not XML
ParseDgml ==
    /\ pc = "parse"
    /\ log' = Append(log, "parse_dgml")
    /\ IF dgml.wellformed
       THEN /\ dependencies' = parse_dgml(dgml.elems)
            /\ dependencies_info' = EmptyDict
            /\ pc' = "resolve"
            /\ UNCHANGED <<error, exit_code>>
       ELSE /\ Raise("ParseError")
            /\ UNCHANGED <<dependencies, dependencies_info>>
    /\ UNCHANGED <<args, project, dgml_rc, mermaid_rc, dgml, ports, dep_index,
                   output, pure>>

\* lines 193-195, one iteration: os.path.join raises TypeError for a node
\* without Id; the files of the port are those read before, if any
ResolveDep ==
    /\ pc = "resolve"
    /\ dep_index < Len(dependencies)
    /\ LET dep == dependencies[dep_index + 1]
       IN  /\ log' = Append(log, "get_data")
           /\ IF dep = <<>>
              THEN /\ Raise("TypeError")
                   /\ UNCHANGED <<ports, dep_index, dependencies_info>>
              ELSE /\ \E a \in (IF vcpkg_additional_registry # ""
                                THEN PortFiles ELSE {<<>>}),
                         o \in PortFiles :
                        LET p == IF ports[dep[1]].read THEN ports[dep[1]]
                                 ELSE [read |-> TRUE, additional |-> a,
                                       official |-> o]
                        IN  /\ ports' = [ports EXCEPT ![dep[1]] = p]
                            /\ dependencies_info' =
                                 DictSet(dependencies_info, dep[1],
                                         get_data_from_vcpkg_json(
                                             vcpkg_additional_registry, p))
                   /\ dep_index' = dep_index + 1
                   /\ UNCHANGED <<pc, error, exit_code>>
    /\ UNCHANGED <<args, project, dgml_rc, mermaid_rc, dgml, dependencies,
                   output, pure>>

\* line 197, lines 97-153: the document is built in memory, then written
GenerateSpdx ==
    /\ pc = "resolve"
    /\ dep_index = Len(dependencies)
    /\ output' = <<spdx_document(dependencies_info)>>
    /\ log' = Append(log, "write")
    /\ pc' = "done"
    /\ exit_code' = 0
    /\ UNCHANGED <<error, args, project, dgml_rc, mermaid_rc, dgml, ports,
                   dependencies, dep_index, dependencies_info, pure>>

Next ==
    \/ ManifestMissing
    \/ LoadProjectFails
    \/ LoadProject
    \/ RunDependInfo
    \/ RunMermaid
    \/ ParseDgml
    \/ ResolveDep
    \/ GenerateSpdx

Spec == Init /\ [][Next]_vars

(***************************************************************************)
(* get_version_from_dep_data applied to every small manifest               *)
(***************************************************************************)
VersionValues == {None, Str("1.0"), Str("2024-01-01")}
KeySet == {keys[k] : k \in 1..Len(keys)}
VersionManifests == UNION {[S -> VersionValues] : S \in SUBSET KeySet}

InitVersion ==
    /\ pc = "call"
    /\ project_file = <<>>
    /\ vcpkg_additional_registry = ""
    /\ enable_mermaid = FALSE
    /\ Idle
    /\ dep_data \in VersionManifests
    /\ version = None

GetVersion ==
    /\ pc = "call"
    /\ version' = get_version_from_dep_data(dep_data)
    /\ pc' = "returned"
    /\ UNCHANGED <<error, exit_code, args, project, dgml_rc, mermaid_rc, dgml,
                   ports, dependencies, dep_index, dependencies_info, log,
                   output, dep_data>>

NextVersion == GetVersion

SpecVersion == InitVersion /\ [][NextVersion]_vars

(***************************************************************************)
(* Vocabulary of the properties, stated on the inputs and the output       *)
(***************************************************************************)
Done == pc = "done"
Ran(stage) == \E k \in 1..Len(log) : log[k] = stage

RootSpdxId == "SPDXRef-Package-" \o project_name

\* positions of the node elements of the graph document
NodePositions == {k \in 1..Len(dgml.elems) : dgml.elems[k].tag = NodeTag}

\* identifiers of the graph document
GraphIds ==
    {dgml.elems[k].id[1] : k \in {n \in NodePositions : dgml.elems[n].id # <<>>}}
NonRootIds == GraphIds \ {project_name}
Occurrences(i) ==
    Cardinality({k \in NodePositions : dgml.elems[k].id = <<i>>})

\* the manifest get_data_from_vcpkg_json is to use for a port, if any
FirstManifest(i) ==
    IF vcpkg_additional_registry # "" /\ ports[i].additional # <<>>
    THEN ports[i].additional
    ELSE ports[i].official

Resolved == DOMAIN dependencies_info.vals

PackagesNamed(i) ==
    {k \in 1..Len(output[1].packages) : output[1].packages[k].name = i}

\* C1: when the graph contains the root's identifier, the document has exactly
\* one package record with the root's name or SPDX id, the root's own, and no
\* relationship whose target is the root's SPDX id.
RootExclusion ==
    (Done /\ project_name \in GraphIds) =>
        LET p == output[1].packages
            r == output[1].relationships
        IN  /\ {k \in 1..Len(p) : p[k].SPDXID = RootSpdxId \/ p[k].name = project_name}
                = {1}
            /\ p[1].licenseDeclared \in {NOASSERTION, project_license}
            /\ \A k \in 1..Len(r) : r[k].relatedSpdxElement # RootSpdxId

RootExclusionWitness ==
    /\ Done
    /\ project_name \in GraphIds
    /\ Occurrences(project_name) >= 2
    /\ NonRootIds # {}

PackageUniqueness ==
    Done =>
        LET p == output[1].packages
        IN  /\ Len(p) = Cardinality(GraphIds \cup {project_name})
            /\ {p[k].name : k \in 1..Len(p)} = GraphIds \cup {project_name}
            /\ p[1].name = project_name
            /\ p[1].SPDXID = RootSpdxId
            /\ \A j, k \in 1..Len(p) : j # k => p[j].SPDXID # p[k].SPDXID
            /\ \A k \in 1..Len(p) : p[k].SPDXID = "SPDXRef-Package-" \o p[k].name

PackageUniquenessWitness ==
    /\ Done
    /\ \E i \in NonRootIds : Occurrences(i) >= 2
    /\ Len(output[1].packages) = 2

\* C4: with an additional registry configured, the four fields of a port come
\* from the additional registry's manifest if it exists and from the official
\* registry's manifest only if it does not; fields are never combined.
RegistryPrecedence ==
    \A i \in Resolved :
        LET info == dependencies_info.vals[i]
            a == ports[i].additional
            o == ports[i].official
        IN  vcpkg_additional_registry # "" =>
                /\ a # <<>> => info = ReadManifest(a[1])
                /\ (a = <<>> /\ o # <<>>) => info = ReadManifest(o[1])
                /\ (a # <<>> /\ o # <<>>) =>
                      /\ info.license = Get(a[1], "license")
                      /\ \A f \in {"license", "homepage", "description"} :
                            Get(a[1], f) = None => info[f] = None

RegistryPrecedenceWitness ==
    \E i \in Resolved :
        /\ vcpkg_additional_registry # ""
        /\ ports[i].additional # <<>>
        /\ ports[i].official # <<>>
        /\ Get(ports[i].additional[1], "license") # Get(ports[i].official[1], "license")
        /\ Get(ports[i].additional[1], "description") = None
        /\ Get(ports[i].official[1], "description") # None

\* C5: an identifier without a manifest in any candidate location resolves to
\* four absent fields, does not end the run, and its package record has the
\* four fields equal to "NOASSERTION".
LookupMiss ==
    /\ \A i \in Resolved : FirstManifest(i) = <<>> => dependencies_info.vals[i] = AllAbsent
    /\ (pc = "raised" /\ Ran("get_data")) => dependencies[dep_index + 1] = <<>>
    /\ Done =>
        \A i \in NonRootIds :
            FirstManifest(i) = <<>> =>
                /\ Cardinality(PackagesNamed(i)) = 1
                /\ \A k \in PackagesNamed(i) :
                    \A f \in {"licenseDeclared", "homepage", "versionInfo", "description"} :
                        output[1].packages[k][f] = Str("NOASSERTION")

LookupMissWitness ==
    /\ Done
    /\ \E i, j \in NonRootIds : FirstManifest(i) = <<>> /\ FirstManifest(j) # <<>>

\* C7: parse_dgml returns the Id of every node element of the document, in
\* document order, one entry per node element, duplicates included.
ParsePreservesOrder ==
    (Ran("parse_dgml") /\ dgml.wellformed) =>
        /\ Len(dependencies) = Cardinality(NodePositions)
        /\ \A n \in NodePositions :
            dependencies[Cardinality({m \in NodePositions : m <= n})] = dgml.elems[n].id

ParsePreservesOrderWitness ==
    /\ Ran("parse_dgml")
    /\ Len(dgml.elems) = 3
    /\ dgml.elems[2].tag = LinkTag
    /\ dependencies = <<<<"bar">>, <<"bar">>>>

\* C8: the output document is written only by a run that passed every stage,
\* and then completely; a missing project manifest, a vcpkg run that returns
\* non-zero or a graph that does not parse leaves it unwritten.
AllOrNothing ==
    /\ output # <<>> =>
        /\ pc = "done"
        /\ Len(output[1].packages) = 1 + Cardinality(NonRootIds)
        /\ Len(output[1].relationships) = Cardinality(NonRootIds)
        /\ output[1].documentDescribes = <<RootSpdxId>>
    /\ (\/ project_file = <<>>
        \/ dgml_rc > 0
        \/ mermaid_rc > 0
        \/ (Ran("parse_dgml") /\ ~dgml.wellformed)
        \/ exit_code > 0) => output = <<>>

AllOrNothingWitness ==
    /\ pc = "raised"
    /\ dgml_rc > 0
    /\ dgml.wellformed
    /\ GraphIds # {}
    /\ output = <<>>

\* C9: a missing project manifest ends the process with a non-zero code before
\* any vcpkg run, parse, manifest lookup or write; otherwise the vcpkg runs
\* come before parse_dgml, and parse_dgml and every lookup before the write.
StageRank(stage) ==
    CASE stage = "depend_info_dgml" -> 1
      [] stage = "depend_info_mermaid" -> 2
      [] stage = "parse_dgml" -> 3
      [] stage = "get_data" -> 4
      [] stage = "write" -> 5

StageOrdering ==
    /\ project_file = <<>> =>
        /\ pc \in {"start", "exited"}
        /\ log = <<>>
        /\ dgml_rc < 0 /\ mermaid_rc < 0
        /\ \A i \in IDs : ~ports[i].read
        /\ output = <<>>
    /\ pc = "exited" => exit_code > 0
    /\ \A j, k \in 1..Len(log) : j < k => StageRank(log[j]) <= StageRank(log[k])
    /\ Ran("parse_dgml") =>
        /\ dgml_rc = 0
        /\ enable_mermaid => mermaid_rc = 0
    /\ Ran("write") =>
        /\ Ran("parse_dgml")
        /\ Cardinality({k \in 1..Len(log) : log[k] = "get_data"}) = Len(dependencies)
        /\ \A i \in GraphIds : ports[i].read

StageOrderingWitness ==
    /\ pc = "exited"
    /\ enable_mermaid
    /\ exit_code = 1

\* C10: in every package record, each of downloadLocation, homepage,
\* licenseDeclared, description and versionInfo is the value of the manifest
\* used for the package or "NOASSERTION", and never null.
SourceOf(f) ==
    CASE f = "downloadLocation" -> "homepage"
      [] f = "homepage" -> "homepage"
      [] f = "licenseDeclared" -> "license"
      [] f = "description" -> "description"
      [] f = "versionInfo" -> "version"

ManifestValue(k, f) ==
    IF k = 1 THEN Get(project_file[1][1], SourceOf(f))
    ELSE LET m == FirstManifest(output[1].packages[k].name)
         IN  IF m = <<>> THEN None ELSE ReadManifest(m[1])[SourceOf(f)]

SentinelInvariant ==
    Done =>
        \A k \in 1..Len(output[1].packages) :
            \A f \in {"downloadLocation", "homepage", "licenseDeclared",
                      "description", "versionInfo"} :
                LET v == output[1].packages[k][f]
                IN  /\ v.t # "null"
                    /\ v = Str("NOASSERTION") \/ v = ManifestValue(k, f)

SentinelInvariantWitness ==
    /\ Done
    /\ Len(output[1].packages) = 3
    /\ output[1].packages[1].homepage = Str("NOASSERTION")
    /\ output[1].packages[1].licenseDeclared = Str("MIT")
    /\ output[1].packages[2].licenseDeclared = Str("BSD-3-Clause")
    /\ output[1].packages[2].versionInfo = Str("v2")
    /\ output[1].packages[2].description = Str("NOASSERTION")
    /\ output[1].packages[3].description = Str("A B")

\* C6: get_version_from_dep_data returns the value of the first key of
\* version, version-semver, version-date, version-string that is present and
\* not null, and None when there is none; with version-semver and version-date
\* both set and no version, the version-semver value.
Has(key) == key \in DOMAIN dep_data /\ dep_data[key].t # "null"

VersionPrecedence ==
    pc = "returned" =>
        /\ version = (IF Has("version") THEN dep_data["version"]
                      ELSE IF Has("version-semver") THEN dep_data["version-semver"]
                      ELSE IF Has("version-date") THEN dep_data["version-date"]
                      ELSE IF Has("version-string") THEN dep_data["version-string"]
                      ELSE None)
        /\ (Has("version-semver") /\ Has("version-date") /\ ~Has("version")) =>
              version = dep_data["version-semver"]

VersionPrecedenceWitness ==
    /\ pc = "returned"
    /\ Has("version-semver") /\ Has("version-date") /\ ~Has("version")
    /\ dep_data["version-semver"] # dep_data["version-date"]
    /\ version = dep_data["version-semver"]

====
